---- MODULE Spec2Model ----
(***************************************************************************)
(* Model of backend/server.py: the wholesaling CRUD service, its deal      *)
(* economics (create_deal, calculate_mao), its seeding paths (get_agents,  *)
(* seed_test_data), its PATCH and delete handlers, the call log and the    *)
(* lead pipeline views.                                                    *)
(*                                                                         *)
(* Currency.  The source keeps amounts as binary floating point.  Here an  *)
(* amount is an integer number of mills (1/1000 dollar) and request        *)
(* amounts lie on the cent grid, so that 0.70 * arv is computed exactly.   *)
(* Floating-point error far below a mill (the spec's 1e-9 tolerance) is    *)
(* outside the model, with one exception that reaches the results: a value *)
(* that lies exactly halfway between two cents is rounded by round(x, 2)   *)
(* up or down depending on the error of its binary representation, so      *)
(* Round2 yields both neighbours there.                                    *)
(*                                                                         *)
(* A collection of the document store is a bag of documents.  An Optional  *)
(* value is a sequence of length at most one: <<>> is None (or an omitted  *)
(* key), <<v>> is the value v.                                             *)
(***************************************************************************)
EXTENDS Integers, Sequences, FiniteSets, Bags, TLC

VARIABLES agents, leads, deals, buyers, call_logs, nextRid, last, procs

vars == <<agents, leads, deals, buyers, call_logs, nextRid, last, procs>>

store == <<agents, leads, deals, buyers, call_logs>>

(***************************************************************************)
(* Bounds of the model.                                                    *)
(***************************************************************************)
\* Requests that generate uuids (create_deal, a seeding that inserts) served
\* in a run of the sequential specifications.
MaxRequests == 2

\* Concurrent requests in flight in SpecSeed.
NumProcs == 2

\* Calculator amounts of a few cents: 0 .. MaxCents cents.
MaxCents == 5

\* Call logs created in a run of the sequential specifications.
MaxCalls == 1

(***************************************************************************)
(* Amounts.                                                                *)
(***************************************************************************)
Cents(c) == 10 * c

Dollars(n) == 1000 * n

None == <<>>

Some(v) == <<v>>

\* dict.get(key, default) / a pydantic field default.
GetOr(opt, default) == IF opt = None THEN default ELSE opt[1]

\* x * 0.70
Times070(x) == (7 * x) \div 10

\* The multiples of one cent next to x.
CentBelow(x) == 10 * (x \div 10)

CentAbove(x) == 10 * (x \div 10) + 10

\* Variant: int(x * 100) / 100, cutting the digits after the second.
Round2_truncate(x) == {CentBelow(x)}

\* round(x, 2): the nearest cent; at an exact decimal tie the binary
\* representation of x decides, so either neighbour is a possible result.
Round2(x) ==
    IF x % 10 = 0 THEN {x}
    ELSE IF x % 10 < 5 THEN {CentBelow(x)}
    ELSE IF x % 10 > 5 THEN {CentAbove(x)}
    ELSE {CentBelow(x), CentAbove(x)}

\* Variant: the fee defaults to 0 like the calculator's other two inputs.
DefaultAssignmentFee_zero == Dollars(0)

\* DealCreate.assignment_fee: float = 10000; data.get("assignment_fee", 10000)
DefaultAssignmentFee == Dollars(10000)

(***************************************************************************)
(* Deal economics.                                                         *)
(***************************************************************************)
\* Variant: the 70% taken of arv less rehab, (arv - rehab) * 0.70 - fee.
computeMAO_rehabInside(arv, rehab, fee) == Times070(arv - rehab) - fee

\* mao = (arv * 0.70) - rehab - assignment_fee
computeMAO(arv, rehab, fee) == Times070(arv) - rehab - fee

\* Variant: the contract price weighed at 70% like the arv.
computeProfitEstimate_priceAt70(arv, contract, rehab, fee) ==
    arv - Times070(contract) - rehab - fee

\* Variant: the contract price left out, arv - rehab - fee.
computeProfitEstimate_noContract(arv, contract, rehab, fee) == arv - rehab - fee

\* profit = arv - contract_price - rehab_estimate - assignment_fee
computeProfitEstimate(arv, contract, rehab, fee) == arv - contract - rehab - fee

\* Variant: the fee left out, arv - mao - rehab.
computeProfitAtMAO_noFee(arv, rehab, fee) == arv - computeMAO(arv, rehab, fee) - rehab

\* profit_at_mao = arv - mao - rehab - assignment_fee
computeProfitAtMAO(arv, rehab, fee) ==
    arv - computeMAO(arv, rehab, fee) - rehab - fee

(***************************************************************************)
(* POST /calculator/mao.  A request is a mapping in which each of the      *)
(* three keys may be absent.  The result is the set of responses the       *)
(* handler can return (more than one only at a rounding tie).              *)
(***************************************************************************)
calculate_mao(data) ==
    LET arv == GetOr(data.arv, 0)
        rehab == GetOr(data.rehab_estimate, 0)
        assignment_fee == GetOr(data.assignment_fee, DefaultAssignmentFee)
        mao == computeMAO(arv, rehab, assignment_fee)
        profit_at_mao == computeProfitAtMAO(arv, rehab, assignment_fee)
    IN  { [arv |-> arv,
           rehab_estimate |-> rehab,
           assignment_fee |-> assignment_fee,
           max_allowable_offer |-> m,
           profit_at_mao |-> p,
           seventy_percent_arv |-> s] :
             m \in Round2(mao),
             p \in Round2(profit_at_mao),
             s \in Round2(Times070(arv)) }

(***************************************************************************)
(* Documents.  An id is a pair: <<0, i>> is the fixed id of AGENTS_SEED[i] *)
(* ("zara_tw", "ace", ...), <<0, 0>> is the string "sample_lead_1", and    *)
(* <<rid, k>> with rid >= 1 is the k-th uuid4() drawn by request rid       *)
(* (uuid4 values never collide, and never equal a fixed string).           *)
(***************************************************************************)
NewId(rid, k) == <<rid, k>>

SampleLeadId == <<0, 0>>

\* class DealStatus
DealStatus == {"under_contract", "in_disposition", "closing", "closed", "dead"}

\* class LeadStage
LeadStage == {"raw", "warm", "hot", "deal", "dnc", "dead"}

AGENTS_SEED ==
    << [id |-> <<0, 1>>,  name |-> "Zara"],
       [id |-> <<0, 2>>,  name |-> "Ace"],
       [id |-> <<0, 3>>,  name |-> "Maya"],
       [id |-> <<0, 4>>,  name |-> "Eli"],
       [id |-> <<0, 5>>,  name |-> "Nova"],
       [id |-> <<0, 6>>,  name |-> "Raven"],
       [id |-> <<0, 7>>,  name |-> "Jett"],
       [id |-> <<0, 8>>,  name |-> "Sage"],
       [id |-> <<0, 9>>,  name |-> "Finn"],
       [id |-> <<0, 10>>, name |-> "Luna"],
       [id |-> <<0, 11>>, name |-> "Blaze"] >>

\* Agent(**agent_data).model_dump()
Agent(agent_data) ==
    [id |-> agent_data.id, name |-> agent_data.name, status |-> "idle",
     calls_today |-> 0, total_calls |-> 0]

\* sample_leads of seed_test_data
sample_leads ==
    << [county |-> "Harris",     motivation_score |-> 8, stage |-> "hot",
        asking_price |-> Some(Dollars(95000))],
       [county |-> "Fort Bend",  motivation_score |-> 6, stage |-> "warm",
        asking_price |-> Some(Dollars(150000))],
       [county |-> "Montgomery", motivation_score |-> 9, stage |-> "hot",
        asking_price |-> Some(Dollars(120000))],
       [county |-> "Galveston",  motivation_score |-> 3, stage |-> "raw",
        asking_price |-> None],
       [county |-> "Brazoria",   motivation_score |-> 5, stage |-> "warm",
        asking_price |-> Some(Dollars(180000))] >>

\* Lead(**lead_data).model_dump(), its id the uuid given
Lead(id, lead_data) ==
    [id |-> id, county |-> lead_data.county,
     motivation_score |-> lead_data.motivation_score,
     asking_price |-> lead_data.asking_price,
     stage |-> lead_data.stage, assigned_agent |-> None,
     do_not_call |-> FALSE, total_attempts |-> 0,
     last_called_at |-> None, notes |-> None]

\* sample_buyers of seed_test_data
sample_buyers ==
    << [name |-> "David Chen",   deals_purchased |-> 12],
       [name |-> "Sarah Miller", deals_purchased |-> 5],
       [name |-> "James Wilson", deals_purchased |-> 8] >>

\* Buyer(**buyer_data).model_dump(), its id the uuid given
Buyer(id, buyer_data) ==
    [id |-> id, name |-> buyer_data.name,
     deals_purchased |-> buyer_data.deals_purchased, is_active |-> TRUE]

\* class Deal: the document built from the fields given; the fields a
\* DealCreate cannot set take the model's defaults.
Deal(id, f, mao, profit, status) ==
    [id |-> id,
     lead_id |-> f.lead_id,
     arv |-> f.arv,
     rehab_estimate |-> f.rehab_estimate,
     contract_price |-> f.contract_price,
     assignment_fee |-> GetOr(f.assignment_fee, DefaultAssignmentFee),
     max_allowable_offer |-> mao,
     profit_estimate |-> profit,
     status |-> status,
     closing_date |-> f.closing_date,
     notes |-> f.notes,
     buyer_id |-> None,
     buyer_name |-> None]

\* Variant: the literal worked out with the default fee of 10000.
SampleDealMAO_defaultFee == Dollars(81000)

\* sample_deal of seed_test_data: its derived fields are literals
SampleDealMAO == Dollars(79000)

SampleDealProfit == Dollars(48000)

sample_deal(id) ==
    Deal(id,
         [lead_id |-> SampleLeadId,
          arv |-> Dollars(180000),
          rehab_estimate |-> Dollars(35000),
          contract_price |-> Dollars(85000),
          assignment_fee |-> Some(Dollars(12000)),
          closing_date |-> None,
          notes |-> None],
         SampleDealMAO, SampleDealProfit, "in_disposition")

(***************************************************************************)
(* Store primitives.                                                       *)
(***************************************************************************)
\* count_documents({})
count_documents(coll) == BagCardinality(coll)

\* insert_one(doc)
insert_one(coll, doc) == coll (+) SetToBag({doc})

\* The documents of coll that match {"id": id}.
Matching(coll, id) == {d \in BagToSet(coll) : d.id = id}

\* update_one({"id": id}, change): the collections that can result.  One
\* matching document d becomes change[d] (the store picks which when several
\* match); with no match the collection is left as it is.
update_one(coll, id, change) ==
    IF Matching(coll, id) = {} THEN {coll}
    ELSE {(coll (-) SetToBag({d})) (+) SetToBag({change[d]}) : d \in Matching(coll, id)}

\* find_one({"id": id}): the documents it can return (none: the empty set).
find_one(coll, id) == Matching(coll, id)

\* for x_data in <seed list>: await insert_one(Doc(x_data)), run to the end
RECURSIVE insert_all(_, _)
insert_all(coll, docs) ==
    IF docs = <<>> THEN coll
    ELSE insert_all(insert_one(coll, Head(docs)), Tail(docs))

NoBody == [none |-> TRUE]

(***************************************************************************)
(* POST /deals.  rid numbers the request (it names the uuid of the new     *)
(* deal).  The outcomes: the response and the collections written.         *)
(***************************************************************************)
\* Variant: the lead is also taken off the call list.
SetStageDeal_offCallList(lead) == [lead EXCEPT !.stage = "deal", !.do_not_call = TRUE]

\* {"$set": {"stage": "deal"}}
SetStageDeal(lead) == [lead EXCEPT !.stage = "deal"]

\* Variant: a deal whose offer or profit is negative is refused with 422
\* and nothing is written.
create_deal_rejectsNegative(rid, deal_data, deals_, leads_) ==
    LET fee == GetOr(deal_data.assignment_fee, DefaultAssignmentFee)
        mao == computeMAO(deal_data.arv, deal_data.rehab_estimate, fee)
        profit == computeProfitEstimate(deal_data.arv, deal_data.contract_price,
                                        deal_data.rehab_estimate, fee)
        deal == Deal(NewId(rid, 1), deal_data, mao, profit, "under_contract")
    IN  IF mao < 0 \/ profit < 0
        THEN {[status |-> 422, body |-> NoBody, deals |-> deals_, leads |-> leads_]}
        ELSE { [status |-> 200, body |-> deal,
                deals |-> insert_one(deals_, deal), leads |-> l] :
                  l \in update_one(leads_, deal_data.lead_id,
                                   [d \in Matching(leads_, deal_data.lead_id) |-> SetStageDeal(d)]) }

create_deal(rid, deal_data, deals_, leads_) ==
    LET fee == GetOr(deal_data.assignment_fee, DefaultAssignmentFee)
        mao == computeMAO(deal_data.arv, deal_data.rehab_estimate, fee)
        profit == computeProfitEstimate(deal_data.arv, deal_data.contract_price,
                                        deal_data.rehab_estimate, fee)
        deal == Deal(NewId(rid, 1), deal_data, mao, profit, "under_contract")
    IN  { [status |-> 200, body |-> deal,
           deals |-> insert_one(deals_, deal), leads |-> l] :
             l \in update_one(leads_, deal_data.lead_id,
                              [d \in Matching(leads_, deal_data.lead_id) |-> SetStageDeal(d)]) }

(***************************************************************************)
(* PATCH /deals/{deal_id}.  update is a DealUpdate: five Optional fields.  *)
(***************************************************************************)
DealUpdateFields == {"status", "buyer_id", "buyer_name", "closing_date", "notes"}

\* update_data = {k: v for k, v in update.model_dump().items() if v is not None}
update_data(update) == {k \in DealUpdateFields : update[k] # None}

\* Variant: the update also recalculates the derived fields, with the
\* default fee.
SetDeal_recompute(d, update) ==
    [d EXCEPT !.status = GetOr(update.status, @),
              !.buyer_id = IF update.buyer_id = None THEN @ ELSE update.buyer_id,
              !.buyer_name = IF update.buyer_name = None THEN @ ELSE update.buyer_name,
              !.closing_date = IF update.closing_date = None THEN @ ELSE update.closing_date,
              !.notes = IF update.notes = None THEN @ ELSE update.notes,
              !.max_allowable_offer =
                  computeMAO(d.arv, d.rehab_estimate, DefaultAssignmentFee),
              !.profit_estimate =
                  computeProfitEstimate(d.arv, d.contract_price, d.rehab_estimate,
                                        DefaultAssignmentFee)]

\* {"$set": update_data} on one deal document
SetDeal(d, update) ==
    [d EXCEPT !.status = GetOr(update.status, @),
              !.buyer_id = IF update.buyer_id = None THEN @ ELSE update.buyer_id,
              !.buyer_name = IF update.buyer_name = None THEN @ ELSE update.buyer_name,
              !.closing_date = IF update.closing_date = None THEN @ ELSE update.closing_date,
              !.notes = IF update.notes = None THEN @ ELSE update.notes]

\* Variant: closed and dead are final, a deal in either is refused with 409.
update_deal_finalStatuses(deal_id, update, deals_) ==
    IF update_data(update) = {}
    THEN {[status |-> 400, body |-> NoBody, deals |-> deals_]}
    ELSE IF Matching(deals_, deal_id) = {}
    THEN {[status |-> 404, body |-> NoBody, deals |-> deals_]}
    ELSE IF \E d \in Matching(deals_, deal_id) : d.status \in {"closed", "dead"}
    THEN {[status |-> 409, body |-> NoBody, deals |-> deals_]}
    ELSE UNION { { [status |-> 200, body |-> b, deals |-> c] : b \in find_one(c, deal_id) } :
                   c \in update_one(deals_, deal_id,
                                    [d \in Matching(deals_, deal_id) |-> SetDeal(d, update)]) }

update_deal(deal_id, update, deals_) ==
    IF update_data(update) = {}
    THEN {[status |-> 400, body |-> NoBody, deals |-> deals_]}
    ELSE IF Matching(deals_, deal_id) = {}
    THEN {[status |-> 404, body |-> NoBody, deals |-> deals_]}
    ELSE UNION { { [status |-> 200, body |-> b, deals |-> c] : b \in find_one(c, deal_id) } :
                   c \in update_one(deals_, deal_id,
                                    [d \in Matching(deals_, deal_id) |-> SetDeal(d, update)]) }

(***************************************************************************)
(* The seed lists as documents; request rid draws its uuids in the order   *)
(* of the handler: five leads, three buyers, one deal.                     *)
(***************************************************************************)
AgentDocs == [i \in 1..Len(AGENTS_SEED) |-> Agent(AGENTS_SEED[i])]

LeadDocs(rid) == [i \in 1..Len(sample_leads) |-> Lead(NewId(rid, i), sample_leads[i])]

BuyerDocs(rid) ==
    [i \in 1..Len(sample_buyers) |->
        Buyer(NewId(rid, Len(sample_leads) + i), sample_buyers[i])]

SampleDealDoc(rid) == sample_deal(NewId(rid, Len(sample_leads) + Len(sample_buyers) + 1))

(***************************************************************************)
(* POST /seed served with no other request interleaved.                    *)
(***************************************************************************)
\* Variant: one test, of the agents collection, decides for all four.
seed_test_data_oneTest(rid, agents_, leads_, buyers_, deals_) ==
    LET empty == count_documents(agents_) = 0
    IN  [status |-> 200,
         body |-> NoBody,
         agents |-> IF empty THEN insert_all(agents_, AgentDocs) ELSE agents_,
         leads |-> IF empty THEN insert_all(leads_, LeadDocs(rid)) ELSE leads_,
         buyers |-> IF empty THEN insert_all(buyers_, BuyerDocs(rid)) ELSE buyers_,
         deals |-> IF empty THEN insert_one(deals_, SampleDealDoc(rid)) ELSE deals_]

seed_test_data(rid, agents_, leads_, buyers_, deals_) ==
    [status |-> 200,
     body |-> NoBody,
     agents |-> IF count_documents(agents_) = 0
                THEN insert_all(agents_, AgentDocs) ELSE agents_,
     leads |-> IF count_documents(leads_) = 0
               THEN insert_all(leads_, LeadDocs(rid)) ELSE leads_,
     buyers |-> IF count_documents(buyers_) = 0
                THEN insert_all(buyers_, BuyerDocs(rid)) ELSE buyers_,
     deals |-> IF count_documents(deals_) = 0
               THEN insert_one(deals_, SampleDealDoc(rid)) ELSE deals_]

(***************************************************************************)
(* GET /agents served with no other request interleaved.                   *)
(***************************************************************************)
get_agents(agents_) ==
    LET after == IF count_documents(agents_) = 0
                 THEN insert_all(agents_, AgentDocs) ELSE agents_
    IN  [status |-> 200, body |-> [agents |-> after], agents |-> after]

(***************************************************************************)
(* Requests the specifications draw from.                                  *)
(***************************************************************************)
\* (arv, rehab_estimate) of the spec's scenarios 2 and 3.
ScenarioValues == { <<Dollars(180000), Dollars(35000)>>, <<0, 0>> }

\* Scenario 2 and a deal of five cents, whose 70% is not a whole cent.
DealValues == { <<Dollars(180000), Dollars(35000)>>, <<Cents(5), 0>> }

DealFees == {None, Some(Dollars(10000)), Some(Dollars(12000))}

DealCreateInputs(values, fees, leadIds) ==
    { [lead_id |-> l, arv |-> v[1], rehab_estimate |-> v[2],
       contract_price |-> Dollars(85000), assignment_fee |-> f,
       closing_date |-> None, notes |-> None] :
         v \in values, f \in fees, l \in leadIds }

NoUpdate ==
    [status |-> None, buyer_id |-> None, buyer_name |-> None,
     closing_date |-> None, notes |-> None]

DealUpdateInputs ==
    { NoUpdate,
      [NoUpdate EXCEPT !.status = Some("closing")],
      [NoUpdate EXCEPT !.status = Some("dead"), !.notes = Some("seller backed out")] }

\* An id no document has.
MissingId == <<0, 0>>

\* lead_id of a create_deal: "sample_lead_1" or the first seeded lead.
LeadIdInputs ==
    {SampleLeadId} \cup {l.id : l \in {x \in BagToSet(leads) : x.county = "Harris"}}

\* arv of a calculator request: a few cents (0.70 * 0.05 lies halfway between
\* two cents) and the spec's scenario 1.
CalcAmounts == {Cents(c) : c \in 0..MaxCents} \cup {Dollars(200000)}

CalcRequests ==
    [arv : {None} \cup {Some(a) : a \in CalcAmounts},
     rehab_estimate : {None, Some(0), Some(Dollars(35000))},
     assignment_fee : {None, Some(0), Some(Dollars(10000))}]

(***************************************************************************)
(* The sequential service: one request is served at a time, and last holds *)
(* the request served last with the response it was given.                 *)
(***************************************************************************)
NoRequest == [op |-> "none", status |-> 0, req |-> NoBody, body |-> NoBody]

Init ==
    /\ agents = EmptyBag
    /\ leads = EmptyBag
    /\ deals = EmptyBag
    /\ buyers = EmptyBag
    /\ call_logs = EmptyBag
    /\ nextRid = 0
    /\ last = NoRequest
    /\ procs = <<>>

CreateDeal(deal_data) ==
    /\ nextRid < MaxRequests
    /\ \E o \in create_deal(nextRid + 1, deal_data, deals, leads) :
          /\ deals' = o.deals
          /\ leads' = o.leads
          /\ last' = [op |-> "create_deal", status |-> o.status,
                      req |-> deal_data, body |-> o.body]
    /\ nextRid' = nextRid + 1
    /\ UNCHANGED <<agents, buyers, procs, call_logs>>

UpdateDeal(deal_id, update) ==
    /\ \E o \in update_deal(deal_id, update, deals) :
          /\ deals' = o.deals
          /\ last' = [op |-> "update_deal", status |-> o.status,
                      req |-> [deal_id |-> deal_id, update |-> update],
                      body |-> o.body]
    /\ UNCHANGED <<agents, leads, buyers, nextRid, procs, call_logs>>

SeedTestData ==
    LET o == seed_test_data(nextRid + 1, agents, leads, buyers, deals)
        drawsUuid == <<leads, buyers, deals>> # <<o.leads, o.buyers, o.deals>>
    IN  /\ drawsUuid => nextRid < MaxRequests
        /\ agents' = o.agents
        /\ leads' = o.leads
        /\ buyers' = o.buyers
        /\ deals' = o.deals
        /\ last' = [op |-> "seed_test_data", status |-> o.status,
                    req |-> NoBody, body |-> o.body]
        /\ nextRid' = IF drawsUuid THEN nextRid + 1 ELSE nextRid
        /\ UNCHANGED <<procs, call_logs>>

GetAgents ==
    LET o == get_agents(agents)
    IN  /\ agents' = o.agents
        /\ last' = [op |-> "get_agents", status |-> o.status,
                    req |-> NoBody, body |-> o.body]
        /\ UNCHANGED <<leads, deals, buyers, nextRid, procs, call_logs>>

CalculateMao(data) ==
    /\ \E body \in calculate_mao(data) :
          last' = [op |-> "calculate_mao", status |-> 200, req |-> data, body |-> body]
    /\ UNCHANGED <<agents, leads, deals, buyers, nextRid, procs, call_logs>>

Next ==
    \/ \E deal_data \in DealCreateInputs(DealValues, DealFees \ {Some(Dollars(10000))}, LeadIdInputs) :
          CreateDeal(deal_data)
    \/ \E deal_id \in {d.id : d \in BagToSet(deals)} \cup {MissingId}, update \in DealUpdateInputs :
          UpdateDeal(deal_id, update)
    \/ SeedTestData
    \/ GetAgents

Spec == Init /\ [][Next]_vars

(***************************************************************************)
(* The deal economics alone: the calculator and deal creation.             *)
(***************************************************************************)
NextEcon ==
    \/ \E data \in CalcRequests : CalculateMao(data)
    \/ \E deal_data \in DealCreateInputs(ScenarioValues, DealFees, {SampleLeadId}) :
          CreateDeal(deal_data)

SpecEcon == Init /\ [][NextEcon]_vars

(***************************************************************************)
(* Concurrent seeding: NumProcs requests, each a GET /agents or a          *)
(* POST /seed, run as coroutines on one event loop.  A step is the code    *)
(* from one await to the next: one store operation.  Request p draws its   *)
(* uuids as request p.                                                     *)
(***************************************************************************)
Procs == 1..NumProcs

Idle == [op |-> "none", pc |-> "idle", i |-> 0, body |-> EmptyBag]

Goto(p, op, pc, i) == procs' = [procs EXCEPT ![p] = [@ EXCEPT !.op = op, !.pc = pc, !.i = i]]

Return(p, op, body) ==
    procs' = [procs EXCEPT ![p] = [op |-> op, pc |-> "done", i |-> 0, body |-> body]]

\* A loop over a seed list of n entries: after the i-th insert, go on with
\* the next entry or leave the loop at pc after.
LoopNext(p, n, after) ==
    IF procs[p].i < n
    THEN Goto(p, procs[p].op, procs[p].pc, procs[p].i + 1)
    ELSE Goto(p, procs[p].op, after, 0)

InitSeed ==
    /\ agents = EmptyBag
    /\ leads = EmptyBag
    /\ deals = EmptyBag
    /\ buyers = EmptyBag
    /\ call_logs = EmptyBag
    /\ nextRid = 0
    /\ last = NoRequest
    /\ procs = [p \in Procs |-> Idle]

\* agents = await db.agents.find({}).to_list(100); if not agents: ...
GetAgentsFind(p) ==
    /\ procs[p].pc = "idle"
    /\ IF count_documents(agents) = 0
       THEN Goto(p, "get_agents", "ga_insert", 1)
       ELSE Return(p, "get_agents", agents)
    /\ UNCHANGED <<agents, leads, deals, buyers, nextRid, last, call_logs>>

\* await db.agents.insert_one(agent.model_dump()), in the loop of get_agents
GetAgentsInsert(p) ==
    /\ procs[p].pc = "ga_insert"
    /\ agents' = insert_one(agents, AgentDocs[procs[p].i])
    /\ LoopNext(p, Len(AGENTS_SEED), "ga_refind")
    /\ UNCHANGED <<leads, deals, buyers, nextRid, last, call_logs>>

\* agents = await db.agents.find({}).to_list(100); return agents
GetAgentsRefind(p) ==
    /\ procs[p].pc = "ga_refind"
    /\ Return(p, "get_agents", agents)
    /\ UNCHANGED <<agents, leads, deals, buyers, nextRid, last, call_logs>>

\* existing_agents = await db.agents.count_documents({})
SeedCountAgents(p) ==
    /\ procs[p].pc = "idle"
    /\ IF count_documents(agents) = 0
       THEN Goto(p, "seed_test_data", "seed_agents", 1)
       ELSE Goto(p, "seed_test_data", "seed_count_leads", 0)
    /\ UNCHANGED <<agents, leads, deals, buyers, nextRid, last, call_logs>>

SeedInsertAgent(p) ==
    /\ procs[p].pc = "seed_agents"
    /\ agents' = insert_one(agents, AgentDocs[procs[p].i])
    /\ LoopNext(p, Len(AGENTS_SEED), "seed_count_leads")
    /\ UNCHANGED <<leads, deals, buyers, nextRid, last, call_logs>>

\* existing_leads = await db.leads.count_documents({})
SeedCountLeads(p) ==
    /\ procs[p].pc = "seed_count_leads"
    /\ IF count_documents(leads) = 0
       THEN Goto(p, "seed_test_data", "seed_leads", 1)
       ELSE Goto(p, "seed_test_data", "seed_count_buyers", 0)
    /\ UNCHANGED <<agents, leads, deals, buyers, nextRid, last, call_logs>>

SeedInsertLead(p) ==
    /\ procs[p].pc = "seed_leads"
    /\ leads' = insert_one(leads, LeadDocs(p)[procs[p].i])
    /\ LoopNext(p, Len(sample_leads), "seed_count_buyers")
    /\ UNCHANGED <<agents, deals, buyers, nextRid, last, call_logs>>

\* existing_buyers = await db.buyers.count_documents({})
SeedCountBuyers(p) ==
    /\ procs[p].pc = "seed_count_buyers"
    /\ IF count_documents(buyers) = 0
       THEN Goto(p, "seed_test_data", "seed_buyers", 1)
       ELSE Goto(p, "seed_test_data", "seed_count_deals", 0)
    /\ UNCHANGED <<agents, leads, deals, buyers, nextRid, last, call_logs>>

SeedInsertBuyer(p) ==
    /\ procs[p].pc = "seed_buyers"
    /\ buyers' = insert_one(buyers, BuyerDocs(p)[procs[p].i])
    /\ LoopNext(p, Len(sample_buyers), "seed_count_deals")
    /\ UNCHANGED <<agents, leads, deals, nextRid, last, call_logs>>

\* existing_deals = await db.deals.count_documents({})
SeedCountDeals(p) ==
    /\ procs[p].pc = "seed_count_deals"
    /\ IF count_documents(deals) = 0
       THEN Goto(p, "seed_test_data", "seed_deal", 0)
       ELSE Return(p, "seed_test_data", EmptyBag)
    /\ UNCHANGED <<agents, leads, deals, buyers, nextRid, last, call_logs>>

SeedInsertDeal(p) ==
    /\ procs[p].pc = "seed_deal"
    /\ deals' = insert_one(deals, SampleDealDoc(p))
    /\ Return(p, "seed_test_data", EmptyBag)
    /\ UNCHANGED <<agents, leads, buyers, nextRid, last, call_logs>>

NextSeed ==
    \E p \in Procs :
        \/ GetAgentsFind(p)
        \/ GetAgentsInsert(p)
        \/ GetAgentsRefind(p)
        \/ SeedCountAgents(p)
        \/ SeedInsertAgent(p)
        \/ SeedCountLeads(p)
        \/ SeedInsertLead(p)
        \/ SeedCountBuyers(p)
        \/ SeedInsertBuyer(p)
        \/ SeedCountDeals(p)
        \/ SeedInsertDeal(p)

SpecSeed == InitSeed /\ [][NextSeed]_vars

(***************************************************************************)
(* The deal pipeline: deals are seeded or created and their status is      *)
(* patched, to each of the five values of DealStatus.                      *)
(***************************************************************************)
\* A DealUpdate that sets status alone, one for each member of DealStatus
\* (pydantic refuses any other value before the handler runs).
StatusUpdates == {[NoUpdate EXCEPT !.status = Some(t)] : t \in DealStatus}

NextStatus ==
    \/ SeedTestData
    \/ \E deal_data \in DealCreateInputs({<<Dollars(180000), Dollars(35000)>>}, {None}, {SampleLeadId}) :
          CreateDeal(deal_data)
    \/ \E deal_id \in {d.id : d \in BagToSet(deals)} \cup {MissingId},
          update \in StatusUpdates \cup DealUpdateInputs :
          UpdateDeal(deal_id, update)

SpecStatus == Init /\ [][NextStatus]_vars

(***************************************************************************)
(* More store primitives.                                                  *)
(***************************************************************************)
\* The documents of S, a set of documents of coll, with their copies.
Sub(coll, S) == [d \in S |-> CopiesIn(d, coll)]

\* count_documents(query), S the documents of coll that satisfy the query
CountWhere(coll, S) == BagCardinality(Sub(coll, S))

\* delete_one({"id": id}): the collections that can result; one matching
\* document is removed, and with no match nothing is.
delete_one(coll, id) ==
    IF Matching(coll, id) = {} THEN {coll}
    ELSE {coll (-) SetToBag({d}) : d \in Matching(coll, id)}

\* The fields a document keeps as Optional[...]: they hold None or the value.
OptionalFields ==
    {"buyer_id", "buyer_name", "closing_date", "notes", "asking_price",
     "assigned_agent", "last_called_at"}

\* The value a field holds once set from the Optional field of an update.
StoredValue(k, opt) == IF k \in OptionalFields THEN opt ELSE opt[1]

\* Variant: {"$set": update.model_dump()}, the fields left out written too,
\* as None where the document's field can hold it.
SetFields_unfiltered(d, update) ==
    [k \in DOMAIN d |->
        IF k \in DOMAIN update /\ update[k] # None THEN StoredValue(k, update[k])
        ELSE IF k \in DOMAIN update /\ k \in OptionalFields THEN None
        ELSE d[k]]

\* {"$set": update_data} with update_data the fields of update that are not
\* None: they replace the document's, every other field stays.
SetFields(d, update) ==
    [k \in DOMAIN d |->
        IF k \in DOMAIN update /\ update[k] # None
        THEN StoredValue(k, update[k]) ELSE d[k]]

\* if x: of an Optional[int]: neither None nor 0
Truthy(opt) == opt # None /\ opt[1] # 0

\* if x: of an Optional[str] that holds a filter word: neither None nor ""
TruthyStr(opt) == opt # None /\ opt[1] # ""

\* if x: of an Optional[str] that holds an id (an id is not the empty string)
TruthyId(opt) == opt # None

(***************************************************************************)
(* PATCH /leads/{lead_id} and DELETE /leads/{lead_id}.                     *)
(***************************************************************************)
NoLeadUpdate ==
    [stage |-> None, motivation_score |-> None, asking_price |-> None,
     assigned_agent |-> None, do_not_call |-> None, notes |-> None,
     total_attempts |-> None, last_called_at |-> None]

update_lead(lead_id, update, leads_) ==
    IF \A k \in DOMAIN update : update[k] = None
    THEN {[status |-> 400, body |-> NoBody, leads |-> leads_]}
    ELSE IF Matching(leads_, lead_id) = {}
    THEN {[status |-> 404, body |-> NoBody, leads |-> leads_]}
    ELSE UNION { { [status |-> 200, body |-> b, leads |-> c] : b \in find_one(c, lead_id) } :
                   c \in update_one(leads_, lead_id,
                                    [d \in Matching(leads_, lead_id) |-> SetFields(d, update)]) }

\* Variant: the deals and the call logs of the lead go with it.
delete_lead_cascade(lead_id, leads_, deals_, call_logs_) ==
    IF Matching(leads_, lead_id) = {}
    THEN {[status |-> 404, body |-> NoBody, leads |-> leads_,
           deals |-> deals_, call_logs |-> call_logs_]}
    ELSE { [status |-> 200, body |-> NoBody, leads |-> c,
            deals |-> Sub(deals_, {d \in BagToSet(deals_) : d.lead_id # lead_id}),
            call_logs |-> Sub(call_logs_, {d \in BagToSet(call_logs_) : d.lead_id # Some(lead_id)})] :
              c \in delete_one(leads_, lead_id) }

\* The handler touches db.leads alone; the deals and call logs are passed
\* through as they are.
delete_lead(lead_id, leads_, deals_, call_logs_) ==
    IF Matching(leads_, lead_id) = {}
    THEN {[status |-> 404, body |-> NoBody, leads |-> leads_,
           deals |-> deals_, call_logs |-> call_logs_]}
    ELSE { [status |-> 200, body |-> NoBody, leads |-> c,
            deals |-> deals_, call_logs |-> call_logs_] :
              c \in delete_one(leads_, lead_id) }

(***************************************************************************)
(* POST /calls.  n numbers the call: it names the uuid of the call log,    *)
(* and stands for its created_at, the time the request was taken up.       *)
(***************************************************************************)
CallLog(n, call_data) ==
    [id |-> NewId(n, 0),
     agent_id |-> call_data.agent_id,
     lead_id |-> call_data.lead_id,
     motivation_score |-> call_data.motivation_score,
     created_at |-> n]

\* Variant: the day's counter alone is incremented.
IncCalls_todayOnly(agent) == [agent EXCEPT !.calls_today = @ + 1]

\* {"$inc": {"calls_today": 1, "total_calls": 1}}
IncCalls(agent) == [agent EXCEPT !.calls_today = @ + 1, !.total_calls = @ + 1]

\* {"$inc": {"total_attempts": 1}, "$set": {"last_called_at": call.created_at}}
Called(lead, created_at) ==
    [lead EXCEPT !.total_attempts = @ + 1, !.last_called_at = Some(created_at)]

\* {"$set": {"motivation_score": call_data.motivation_score}}
SetScore(lead, score) == [lead EXCEPT !.motivation_score = score]

create_call_log(n, call_data, call_logs_, agents_, leads_) ==
    LET call == CallLog(n, call_data)
        called == IF TruthyId(call_data.lead_id)
                  THEN update_one(leads_, call_data.lead_id[1],
                           [d \in Matching(leads_, call_data.lead_id[1]) |->
                               Called(d, call.created_at)])
                  ELSE {leads_}
        scored(l) == IF TruthyId(call_data.lead_id) /\ Truthy(call_data.motivation_score)
                     THEN update_one(l, call_data.lead_id[1],
                              [d \in Matching(l, call_data.lead_id[1]) |->
                                  SetScore(d, call_data.motivation_score[1])])
                     ELSE {l}
    IN  { [status |-> 200, body |-> call,
           call_logs |-> insert_one(call_logs_, call),
           agents |-> a, leads |-> l] :
             a \in update_one(agents_, call_data.agent_id,
                              [d \in Matching(agents_, call_data.agent_id) |-> IncCalls(d)]),
             l \in UNION {scored(c) : c \in called} }

(***************************************************************************)
(* The lead pipeline views.  A result list is the bag of its documents     *)
(* (its order, and a limit above the number of leads, play no part), a     *)
(* grouping is a function from the group keys that occur to their rows.    *)
(***************************************************************************)
\* {"county": {"$regex": county, "$options": "i"}}: the county names the
\* pattern is found in, among those of the seeded leads.
CountyRegex(pattern) ==
    CASE pattern = "harris" -> {"Harris"}
      [] pattern = "on" -> {"Montgomery", "Galveston"}
      [] OTHER -> {}

\* {"$match": {"do_not_call": False}}
Callable(leads_) == {d \in BagToSet(leads_) : d.do_not_call = FALSE}

\* Variant: a stage filter replaces the query instead of being added to it.
get_leads_stageReplacesQuery(stage, county, min_score, leads_) ==
    Sub(leads_,
        {d \in BagToSet(leads_) :
            /\ IF TruthyStr(stage) THEN d.stage = stage[1] ELSE d.do_not_call = FALSE
            /\ TruthyStr(county) => d.county \in CountyRegex(county[1])
            /\ min_score # None => d.motivation_score >= min_score[1]})

get_leads(stage, county, min_score, leads_) ==
    Sub(leads_,
        {d \in Callable(leads_) :
            /\ TruthyStr(stage) => d.stage = stage[1]
            /\ TruthyStr(county) => d.county \in CountyRegex(county[1])
            /\ min_score # None => d.motivation_score >= min_score[1]})

\* sum(f.values())
RECURSIVE SumValues(_)
SumValues(f) ==
    IF DOMAIN f = {} THEN 0
    ELSE LET k == CHOOSE j \in DOMAIN f : TRUE
         IN  f[k] + SumValues([j \in DOMAIN f \ {k} |-> f[j]])

\* {"$match": {"do_not_call": False}}, {"$group": {"_id": "$stage", "count": {"$sum": 1}}}
get_leads_by_stage(leads_) ==
    [s \in {d.stage : d \in Callable(leads_)} |->
        CountWhere(leads_, {d \in Callable(leads_) : d.stage = s})]

get_leads_by_county(leads_) ==
    [c \in {d.county : d \in Callable(leads_)} |->
        CountWhere(leads_, {d \in Callable(leads_) : d.county = c})]

\* The lead, deal and buyer figures of the dashboard (pipeline_value and
\* calls_today, sums over deals and call logs, are no part of the model).
get_dashboard_stats(leads_, deals_, buyers_) ==
    LET leads_by_stage == get_leads_by_stage(leads_)
        deals_by_status ==
            [s \in {d.status : d \in BagToSet(deals_)} |->
                CountWhere(deals_, {d \in BagToSet(deals_) : d.status = s})]
    IN  [leads_by_stage |-> leads_by_stage,
         deals_by_status |-> deals_by_status,
         hot_leads |-> CountWhere(leads_, {d \in BagToSet(leads_) :
                           d.motivation_score >= 7 /\ d.do_not_call = FALSE}),
         active_buyers |-> CountWhere(buyers_, {d \in BagToSet(buyers_) : d.is_active = TRUE}),
         total_leads |-> SumValues(leads_by_stage),
         total_deals |-> SumValues(deals_by_status)]

get_county_stats(leads_) ==
    [c \in {d.county : d \in Callable(leads_)} |->
        LET rows == {d \in Callable(leads_) : d.county = c}
        IN  [total |-> CountWhere(leads_, rows),
             hot |-> CountWhere(leads_, {d \in rows : d.motivation_score >= 7}),
             warm |-> CountWhere(leads_, {d \in rows :
                          d.motivation_score >= 4 /\ d.motivation_score < 7}),
             raw |-> CountWhere(leads_, {d \in rows : d.motivation_score < 4})]]

(***************************************************************************)
(* The lead pipeline served one request at a time: leads are seeded,       *)
(* patched, called, turned into deals, deleted, and looked at.             *)
(***************************************************************************)
\* "ace", the agent that places the calls
AceId == AGENTS_SEED[2].id

LeadUpdateInputs ==
    { NoLeadUpdate,
      [NoLeadUpdate EXCEPT !.do_not_call = Some(TRUE)],
      [NoLeadUpdate EXCEPT !.do_not_call = Some(FALSE), !.motivation_score = Some(2)] }

\* A CallLogCreate: the lead is left out, is the first seeded lead or is
\* unknown; the score is left out, is 0 or is 7.
CallInputs(agentIds, leadIds) ==
    [agent_id : agentIds,
     lead_id : {None} \cup {Some(l) : l \in leadIds},
     motivation_score : {None, Some(0), Some(7)}]

\* Query parameters of GET /leads.
LeadFilters ==
    [stage : {None, Some("hot")},
     county : {None, Some("harris"), Some("on")},
     min_score : {None, Some(7)}]

UpdateLead(lead_id, update) ==
    /\ \E o \in update_lead(lead_id, update, leads) :
          /\ leads' = o.leads
          /\ last' = [op |-> "update_lead", status |-> o.status,
                      req |-> [lead_id |-> lead_id, update |-> update],
                      body |-> o.body]
    /\ UNCHANGED <<agents, deals, buyers, call_logs, nextRid, procs>>

DeleteLead(lead_id) ==
    /\ \E o \in delete_lead(lead_id, leads, deals, call_logs) :
          /\ leads' = o.leads
          /\ deals' = o.deals
          /\ call_logs' = o.call_logs
          /\ last' = [op |-> "delete_lead", status |-> o.status,
                      req |-> [lead_id |-> lead_id], body |-> o.body]
    /\ UNCHANGED <<agents, buyers, nextRid, procs>>

CreateCallLog(call_data) ==
    /\ count_documents(call_logs) < MaxCalls
    /\ \E o \in create_call_log(count_documents(call_logs) + 1, call_data,
                                call_logs, agents, leads) :
          /\ call_logs' = o.call_logs
          /\ agents' = o.agents
          /\ leads' = o.leads
          /\ last' = [op |-> "create_call_log", status |-> o.status,
                      req |-> call_data, body |-> o.body]
    /\ UNCHANGED <<deals, buyers, nextRid, procs>>

\* A view: the store stays as it is, last holds what was returned.
Served(op, req, body) ==
    /\ last' = [op |-> op, status |-> 200, req |-> req, body |-> body]
    /\ UNCHANGED <<agents, leads, deals, buyers, call_logs, nextRid, procs>>

GetLeads(query) ==
    Served("get_leads", query,
           [leads |-> get_leads(query.stage, query.county, query.min_score, leads)])

GetLeadsByStage == Served("get_leads_by_stage", NoBody, get_leads_by_stage(leads))

GetLeadsByCounty == Served("get_leads_by_county", NoBody, get_leads_by_county(leads))

GetDashboardStats ==
    Served("get_dashboard_stats", NoBody, get_dashboard_stats(leads, deals, buyers))

GetCountyStats == Served("get_county_stats", NoBody, get_county_stats(leads))

NextLeads ==
    \/ SeedTestData
    \/ \E deal_data \in DealCreateInputs({<<Dollars(180000), Dollars(35000)>>}, {None},
                                         LeadIdInputs \ {SampleLeadId}) :
          CreateDeal(deal_data)
    \/ \E call_data \in CallInputs({AceId}, LeadIdInputs) : CreateCallLog(call_data)
    \/ \E lead_id \in LeadIdInputs, update \in LeadUpdateInputs : UpdateLead(lead_id, update)
    \/ \E lead_id \in LeadIdInputs : DeleteLead(lead_id)
    \/ \E query \in LeadFilters : GetLeads(query)
    \/ GetLeadsByStage
    \/ GetLeadsByCounty
    \/ GetDashboardStats
    \/ GetCountyStats

SpecLeads == Init /\ [][NextLeads]_vars

(***************************************************************************)
(* PATCH /agents/{agent_id}.                                               *)
(***************************************************************************)
NoAgentUpdate == [status |-> None, calls_today |-> None]

update_agent(agent_id, update, agents_) ==
    IF \A k \in DOMAIN update : update[k] = None
    THEN {[status |-> 400, body |-> NoBody, agents |-> agents_]}
    ELSE IF Matching(agents_, agent_id) = {}
    THEN {[status |-> 404, body |-> NoBody, agents |-> agents_]}
    ELSE UNION { { [status |-> 200, body |-> b, agents |-> c] : b \in find_one(c, agent_id) } :
                   c \in update_one(agents_, agent_id,
                                    [d \in Matching(agents_, agent_id) |-> SetFields(d, update)]) }

(***************************************************************************)
(* Concurrent PATCH requests: NumProcs requests, each an update_agent, an  *)
(* update_lead or an update_deal, run as coroutines against a seeded       *)
(* store.  A request takes two store operations: update_one, which the     *)
(* store applies to the document in one step, then find_one for the        *)
(* response.  nextRid numbers the writes in the order the store applies    *)
(* them, and last holds the write applied last.                            *)
(***************************************************************************)
PatchOps == {"update_agent", "update_lead", "update_deal"}

PatchIdle ==
    [op |-> "none", pc |-> "idle", id |-> MissingId, update |-> NoBody,
     seq |-> 0, status |-> 0, body |-> NoBody]

\* The store after a POST /seed (its uuids drawn as request NumProcs + 1).
Seeded == seed_test_data(NumProcs + 1, EmptyBag, EmptyBag, EmptyBag, EmptyBag)

InitWrites ==
    /\ agents = Seeded.agents
    /\ leads = Seeded.leads
    /\ buyers = Seeded.buyers
    /\ deals = Seeded.deals
    /\ call_logs = EmptyBag
    /\ nextRid = 0
    /\ last = NoRequest
    /\ procs = [p \in Procs |-> PatchIdle]

\* db.agents, db.leads or db.deals
Collection(op) ==
    CASE op = "update_agent" -> agents
      [] op = "update_lead" -> leads
      [] op = "update_deal" -> deals

\* update_data is empty
NothingToSet(update) == \A k \in DOMAIN update : update[k] = None

\* {"$set": update_data} on the document of a PATCH
Patched(op, d, update) ==
    IF op = "update_deal" THEN SetDeal(d, update) ELSE SetFields(d, update)

\* update_data = ...; if not update_data: raise 400;
\* result = await db.<collection>.update_one(...); if matched_count == 0: raise 404
PatchUpdateOne(p, op, id, update) ==
    /\ procs[p].pc = "idle"
    /\ IF NothingToSet(update) \/ Matching(Collection(op), id) = {}
       THEN /\ procs' = [procs EXCEPT ![p] =
                   [op |-> op, pc |-> "done", id |-> id, update |-> update, seq |-> 0,
                    status |-> IF NothingToSet(update) THEN 400 ELSE 404,
                    body |-> NoBody]]
            /\ UNCHANGED <<agents, leads, deals, nextRid, last>>
       ELSE /\ \E c \in update_one(Collection(op), id,
                                   [d \in Matching(Collection(op), id) |-> Patched(op, d, update)]) :
                  /\ agents' = IF op = "update_agent" THEN c ELSE agents
                  /\ leads' = IF op = "update_lead" THEN c ELSE leads
                  /\ deals' = IF op = "update_deal" THEN c ELSE deals
            /\ nextRid' = nextRid + 1
            /\ procs' = [procs EXCEPT ![p] =
                   [op |-> op, pc |-> "find_one", id |-> id, update |-> update,
                    seq |-> nextRid + 1, status |-> 0, body |-> NoBody]]
            /\ last' = [op |-> op, status |-> 0,
                        req |-> [id |-> id, update |-> update, proc |-> p],
                        body |-> NoBody]
    /\ UNCHANGED <<buyers, call_logs>>

\* return await db.<collection>.find_one({"id": id}); a document that is no
\* longer there fails the response model (500)
PatchFindOne(p) ==
    /\ procs[p].pc = "find_one"
    /\ IF find_one(Collection(procs[p].op), procs[p].id) = {}
       THEN procs' = [procs EXCEPT ![p] = [@ EXCEPT !.pc = "done", !.status = 500]]
       ELSE \E b \in find_one(Collection(procs[p].op), procs[p].id) :
               procs' = [procs EXCEPT ![p] = [@ EXCEPT !.pc = "done", !.status = 200, !.body = b]]
    /\ UNCHANGED <<agents, leads, deals, buyers, call_logs, nextRid, last>>

AgentPatches ==
    { NoAgentUpdate,
      [NoAgentUpdate EXCEPT !.status = Some("on_call")],
      [NoAgentUpdate EXCEPT !.status = Some("disabled"), !.calls_today = Some(7)],
      [NoAgentUpdate EXCEPT !.calls_today = Some(0)] }

LeadPatches ==
    { [NoLeadUpdate EXCEPT !.stage = Some("warm")],
      [NoLeadUpdate EXCEPT !.stage = Some("dead"), !.notes = Some("wrong number")],
      [NoLeadUpdate EXCEPT !.notes = Some("call back"), !.motivation_score = Some(1)] }

DealPatches ==
    { [NoUpdate EXCEPT !.status = Some("closing")],
      [NoUpdate EXCEPT !.status = Some("dead"), !.notes = Some("seller backed out")],
      [NoUpdate EXCEPT !.notes = Some("buyer found"), !.buyer_name = Some("David Chen")] }

\* The requests of SpecWrites: every PATCH of a kind goes to one document.
PatchRequests ==
    {<<"update_agent", id, u>> : id \in {AceId, MissingId}, u \in AgentPatches}
      \cup {<<"update_lead", id, u>> : id \in LeadIdInputs \ {SampleLeadId}, u \in LeadPatches}
      \cup {<<"update_deal", id, u>> : id \in {d.id : d \in BagToSet(deals)}, u \in DealPatches}

NextWrites ==
    \E p \in Procs :
        \/ \E r \in PatchRequests : PatchUpdateOne(p, r[1], r[2], r[3])
        \/ PatchFindOne(p)

SpecWrites == InitWrites /\ [][NextWrites]_vars

(***************************************************************************)
(* Deals that differ in their contract price alone.                        *)
(***************************************************************************)
\* contract_price of a create_deal: 85000, 85000.01, 90000 and 0
DealPrices == {Dollars(85000), Dollars(85000) + Cents(1), Dollars(90000), 0}

NextPrice ==
    \E deal_data \in DealCreateInputs(DealValues, DealFees, {SampleLeadId}), price \in DealPrices :
        CreateDeal([deal_data EXCEPT !.contract_price = price])

SpecPrice == Init /\ [][NextPrice]_vars

(***************************************************************************)
(* Concurrent POST /calls requests: NumProcs requests run as coroutines    *)
(* against a seeded store.  A step is the code from one await to the next: *)
(* one store operation.  Request p creates call log p.                     *)
(***************************************************************************)
CallIdle == [op |-> "none", pc |-> "idle", req |-> NoBody, body |-> NoBody]

InitCalls ==
    /\ agents = Seeded.agents
    /\ leads = Seeded.leads
    /\ buyers = Seeded.buyers
    /\ deals = Seeded.deals
    /\ call_logs = EmptyBag
    /\ nextRid = 0
    /\ last = NoRequest
    /\ procs = [p \in Procs |-> CallIdle]

CallGoto(p, pc) == procs' = [procs EXCEPT ![p] = [@ EXCEPT !.pc = pc]]

\* call = CallLog(**call_data.model_dump()); await db.call_logs.insert_one(...)
CallInsertLog(p, call_data) ==
    /\ procs[p].pc = "idle"
    /\ call_logs' = insert_one(call_logs, CallLog(p, call_data))
    /\ procs' = [procs EXCEPT ![p] =
           [op |-> "create_call_log", pc |-> "inc_agent", req |-> call_data,
            body |-> CallLog(p, call_data)]]
    /\ UNCHANGED <<agents, leads, deals, buyers, nextRid, last>>

\* await db.agents.update_one({"id": agent_id}, {"$inc": ...}); if call_data.lead_id:
CallIncAgent(p) ==
    /\ procs[p].pc = "inc_agent"
    /\ agents' \in update_one(agents, procs[p].req.agent_id,
                              [d \in Matching(agents, procs[p].req.agent_id) |-> IncCalls(d)])
    /\ CallGoto(p, IF TruthyId(procs[p].req.lead_id) THEN "touch_lead" ELSE "done")
    /\ UNCHANGED <<leads, deals, buyers, call_logs, nextRid, last>>

\* await db.leads.update_one({"id": lead_id}, {"$inc": ..., "$set": ...});
\* if call_data.motivation_score:
CallTouchLead(p) ==
    /\ procs[p].pc = "touch_lead"
    /\ leads' \in update_one(leads, procs[p].req.lead_id[1],
                             [d \in Matching(leads, procs[p].req.lead_id[1]) |->
                                 Called(d, procs[p].body.created_at)])
    /\ CallGoto(p, IF Truthy(procs[p].req.motivation_score) THEN "set_score" ELSE "done")
    /\ UNCHANGED <<agents, deals, buyers, call_logs, nextRid, last>>

\* await db.leads.update_one({"id": lead_id}, {"$set": {"motivation_score": ...}})
CallSetScore(p) ==
    /\ procs[p].pc = "set_score"
    /\ leads' \in update_one(leads, procs[p].req.lead_id[1],
                             [d \in Matching(leads, procs[p].req.lead_id[1]) |->
                                 SetScore(d, procs[p].req.motivation_score[1])])
    /\ CallGoto(p, "done")
    /\ UNCHANGED <<agents, deals, buyers, call_logs, nextRid, last>>

NextCalls ==
    \E p \in Procs :
        \/ \E call_data \in CallInputs({AceId, MissingId}, LeadIdInputs \ {SampleLeadId}) :
              CallInsertLog(p, call_data)
        \/ CallIncAgent(p)
        \/ CallTouchLead(p)
        \/ CallSetScore(p)

SpecCalls == InitCalls /\ [][NextCalls]_vars

(***************************************************************************)
(* POST /agents/{agent_id}/reset-daily, PATCH /buyers/{buyer_id},          *)
(* POST /leads, POST /buyers.                                              *)
(***************************************************************************)
reset_agent_daily_calls(agent_id, agents_) ==
    IF Matching(agents_, agent_id) = {}
    THEN {[status |-> 404, body |-> NoBody, agents |-> agents_]}
    ELSE { [status |-> 200, body |-> NoBody, agents |-> c] :
             c \in update_one(agents_, agent_id,
                              [d \in Matching(agents_, agent_id) |-> [d EXCEPT !.calls_today = 0]]) }

\* {"$set": update} with update the request body itself, a Dict[str, Any]:
\* every key of the body is written, whatever it is.
SetDict(d, update) ==
    [k \in DOMAIN d \cup DOMAIN update |-> IF k \in DOMAIN update THEN update[k] ELSE d[k]]

\* Variant: update_one(..., upsert=True), an id that is not stored gets a
\* document made of the id and the body.
update_buyer_upsert(buyer_id, update, buyers_) ==
    IF DOMAIN update = {}
    THEN {[status |-> 400, body |-> NoBody, buyers |-> buyers_]}
    ELSE IF Matching(buyers_, buyer_id) = {}
    THEN {[status |-> 200, body |-> SetDict([id |-> buyer_id], update),
           buyers |-> insert_one(buyers_, SetDict([id |-> buyer_id], update))]}
    ELSE UNION { IF find_one(c, buyer_id) = {}
                 THEN {[status |-> 500, body |-> NoBody, buyers |-> c]}
                 ELSE { [status |-> 200, body |-> b, buyers |-> c] : b \in find_one(c, buyer_id) } :
                   c \in update_one(buyers_, buyer_id,
                                    [d \in Matching(buyers_, buyer_id) |-> SetDict(d, update)]) }

\* The response is read back by the id of the path; with no document under
\* that id any more, None fails the response model (500).
update_buyer(buyer_id, update, buyers_) ==
    IF DOMAIN update = {}
    THEN {[status |-> 400, body |-> NoBody, buyers |-> buyers_]}
    ELSE IF Matching(buyers_, buyer_id) = {}
    THEN {[status |-> 404, body |-> NoBody, buyers |-> buyers_]}
    ELSE UNION { IF find_one(c, buyer_id) = {}
                 THEN {[status |-> 500, body |-> NoBody, buyers |-> c]}
                 ELSE { [status |-> 200, body |-> b, buyers |-> c] : b \in find_one(c, buyer_id) } :
                   c \in update_one(buyers_, buyer_id,
                                    [d \in Matching(buyers_, buyer_id) |-> SetDict(d, update)]) }

\* A LeadCreate has no stage: the lead starts at the default, "raw".
create_lead(rid, lead_data, leads_) ==
    LET lead == Lead(NewId(rid, 1),
                     [county |-> lead_data.county,
                      motivation_score |-> lead_data.motivation_score,
                      asking_price |-> lead_data.asking_price,
                      stage |-> "raw"])
    IN  [status |-> 200, body |-> lead, leads |-> insert_one(leads_, lead)]

create_buyer(rid, buyer_data, buyers_) ==
    LET buyer == Buyer(NewId(rid, 1), [name |-> buyer_data.name, deals_purchased |-> 0])
    IN  [status |-> 200, body |-> buyer, buyers |-> insert_one(buyers_, buyer)]

(***************************************************************************)
(* The whole CRUD service served one request at a time.                    *)
(***************************************************************************)
UpdateAgent(agent_id, update) ==
    /\ \E o \in update_agent(agent_id, update, agents) :
          /\ agents' = o.agents
          /\ last' = [op |-> "update_agent", status |-> o.status,
                      req |-> [agent_id |-> agent_id, update |-> update],
                      body |-> o.body]
    /\ UNCHANGED <<leads, deals, buyers, call_logs, nextRid, procs>>

ResetAgentDailyCalls(agent_id) ==
    /\ \E o \in reset_agent_daily_calls(agent_id, agents) :
          /\ agents' = o.agents
          /\ last' = [op |-> "reset_agent_daily_calls", status |-> o.status,
                      req |-> [agent_id |-> agent_id], body |-> o.body]
    /\ UNCHANGED <<leads, deals, buyers, call_logs, nextRid, procs>>

UpdateBuyer(buyer_id, update) ==
    /\ \E o \in update_buyer(buyer_id, update, buyers) :
          /\ buyers' = o.buyers
          /\ last' = [op |-> "update_buyer", status |-> o.status,
                      req |-> [buyer_id |-> buyer_id, update |-> update],
                      body |-> o.body]
    /\ UNCHANGED <<agents, leads, deals, call_logs, nextRid, procs>>

CreateLead(lead_data) ==
    /\ nextRid < MaxRequests
    /\ LET o == create_lead(nextRid + 1, lead_data, leads)
       IN  /\ leads' = o.leads
           /\ last' = [op |-> "create_lead", status |-> o.status,
                       req |-> lead_data, body |-> o.body]
    /\ nextRid' = nextRid + 1
    /\ UNCHANGED <<agents, deals, buyers, call_logs, procs>>

CreateBuyer(buyer_data) ==
    /\ nextRid < MaxRequests
    /\ LET o == create_buyer(nextRid + 1, buyer_data, buyers)
       IN  /\ buyers' = o.buyers
           /\ last' = [op |-> "create_buyer", status |-> o.status,
                       req |-> buyer_data, body |-> o.body]
    /\ nextRid' = nextRid + 1
    /\ UNCHANGED <<agents, leads, deals, call_logs, procs>>

\* The body of a PATCH /buyers: no key, a flag, or the id of another buyer.
EmptyDict == <<>>

BuyerUpdates ==
    {EmptyDict, [is_active |-> FALSE]}
      \cup {[id |-> b.id] : b \in {x \in BagToSet(buyers) : x.name = "Sarah Miller"}}

\* The buyer patched: "David Chen" under the id he has now, or nobody.
BuyerIdInputs ==
    {MissingId} \cup {b.id : b \in {x \in BagToSet(buyers) : x.name = "David Chen"}}

\* PATCH requests alone, against a store that is empty or seeded: bodies
\* with and without a field to set, ids stored and not stored.
NextPatch ==
    \/ SeedTestData
    \/ \E agent_id \in {AceId, MissingId},
          update \in {NoAgentUpdate, [NoAgentUpdate EXCEPT !.calls_today = Some(0)],
                      [NoAgentUpdate EXCEPT !.status = Some("on_call")]} :
          UpdateAgent(agent_id, update)
    \/ \E lead_id \in LeadIdInputs, update \in LeadUpdateInputs : UpdateLead(lead_id, update)
    \/ \E deal_id \in {d.id : d \in BagToSet(deals)} \cup {MissingId},
          update \in DealUpdateInputs :
          UpdateDeal(deal_id, update)
    \/ \E buyer_id \in BuyerIdInputs, update \in BuyerUpdates : UpdateBuyer(buyer_id, update)

SpecPatch == Init /\ [][NextPatch]_vars

\* Every kind of write of the service, each with one request.
NextCrud ==
    \/ SeedTestData
    \/ CreateLead([county |-> "Harris", motivation_score |-> 0, asking_price |-> None])
    \/ CreateBuyer([name |-> "Ana Ruiz"])
    \/ \E deal_data \in DealCreateInputs({<<Dollars(180000), Dollars(35000)>>}, {None},
                                         {SampleLeadId}) :
          CreateDeal(deal_data)
    \/ CreateCallLog([agent_id |-> AceId, lead_id |-> None, motivation_score |-> None])
    \/ UpdateAgent(AceId, [NoAgentUpdate EXCEPT !.status = Some("on_call")])
    \/ ResetAgentDailyCalls(AceId)
    \/ \E lead_id \in LeadIdInputs \ {SampleLeadId} :
          UpdateLead(lead_id, [NoLeadUpdate EXCEPT !.do_not_call = Some(TRUE)])
    \/ \E lead_id \in LeadIdInputs \ {SampleLeadId} : DeleteLead(lead_id)
    \/ \E deal_id \in {d.id : d \in BagToSet(deals)} :
          UpdateDeal(deal_id, [NoUpdate EXCEPT !.status = Some("closing")])
    \/ \E buyer_id \in BuyerIdInputs \ {MissingId}, update \in BuyerUpdates \ {EmptyDict} :
          UpdateBuyer(buyer_id, update)

SpecCrud == Init /\ [][NextCrud]_vars

(***************************************************************************)
(* Properties.                                                             *)
(***************************************************************************)
Abs(x) == IF x < 0 THEN -x ELSE x

Stored(coll) == BagToSet(coll)

IsCreateDeal == last.op = "create_deal"

IsCalculateMao == last.op = "calculate_mao"

\* ten times (0.70 * arv - rehab - fee), free of division
TenMAO(arv, rehab, fee) == 7 * arv - 10 * rehab - 10 * fee

\* C1: the deal record that create_deal stores and returns carries the
\* request's arv, rehab_estimate and contract_price, and its
\* max_allowable_offer equals 0.70 * arv - rehab_estimate - assignment_fee.
C1_CreateDealMAO ==
    IsCreateDeal =>
        /\ last.body \in Stored(deals)
        /\ last.body.arv = last.req.arv
        /\ last.body.rehab_estimate = last.req.rehab_estimate
        /\ last.req.assignment_fee # None =>
              last.body.assignment_fee = last.req.assignment_fee[1]
        /\ 10 * last.body.max_allowable_offer =
              TenMAO(last.req.arv, last.req.rehab_estimate, last.body.assignment_fee)

\* A deal of five cents with a fee of 12000: its offer, 0.035 - 12000, is
\* stored to the mill.
C1_Witness ==
    /\ IsCreateDeal
    /\ last.req.arv = Cents(5)
    /\ last.req.assignment_fee = Some(Dollars(12000))
    /\ last.body.max_allowable_offer = 35 - Dollars(12000)
    /\ last.body \in Stored(deals)

\* C2: the deal record that create_deal stores and returns has
\* profit_estimate equal to arv - contract_price - rehab_estimate -
\* assignment_fee; scenario 2 gives MAO 79000 and profit_estimate 48000.
C2_CreateDealProfit ==
    IsCreateDeal =>
        /\ last.body \in Stored(deals)
        /\ last.body.contract_price = last.req.contract_price
        /\ last.body.profit_estimate =
              last.req.arv - last.req.contract_price
                - last.req.rehab_estimate - last.body.assignment_fee
        /\ ( /\ last.req.arv = Dollars(180000)
             /\ last.req.rehab_estimate = Dollars(35000)
             /\ last.req.contract_price = Dollars(85000)
             /\ last.req.assignment_fee = Some(Dollars(12000)) ) =>
              /\ last.body.max_allowable_offer = Dollars(79000)
              /\ last.body.profit_estimate = Dollars(48000)

C2_Witness ==
    /\ IsCreateDeal
    /\ last.req.arv = Dollars(180000)
    /\ last.req.assignment_fee = Some(Dollars(12000))
    /\ last.body.profit_estimate = Dollars(48000)
    /\ last.body.max_allowable_offer = Dollars(79000)

\* C3: in every reachable state every stored deal, the seeded sample deal
\* included, satisfies both formulas with respect to its own stored arv,
\* rehab_estimate, contract_price and assignment_fee.
C3_StoredDealsConsistent ==
    \A d \in Stored(deals) :
        /\ 10 * d.max_allowable_offer = TenMAO(d.arv, d.rehab_estimate, d.assignment_fee)
        /\ d.profit_estimate =
              d.arv - d.contract_price - d.rehab_estimate - d.assignment_fee

\* The seeded sample deal beside a created deal that has since been updated.
C3_Witness ==
    /\ SampleDealDoc(1) \in Stored(deals)
    /\ \E d \in Stored(deals) : d.id = NewId(2, 1) /\ d.status = "dead"

\* C4: an update_deal leaves max_allowable_offer and profit_estimate of
\* every stored deal as they were, and neither adds nor removes a deal.
C4_UpdateKeepsDerived ==
    [][ last'.op = "update_deal" =>
          /\ \A d \in Stored(deals) : \E e \in Stored(deals') :
                /\ e.id = d.id
                /\ e.max_allowable_offer = d.max_allowable_offer
                /\ e.profit_estimate = d.profit_estimate
          /\ count_documents(deals') = count_documents(deals) ]_vars

\* An update has set status and notes of a deal whose fee is not the default.
C4_Witness ==
    /\ last.op = "update_deal"
    /\ last.status = 200
    /\ last.body.status = "dead"
    /\ last.body.notes # None
    /\ last.body.assignment_fee = Dollars(12000)
    /\ last.body.max_allowable_offer = Dollars(79000)
    /\ last.body \in Stored(deals)

\* The request of the last calculator call with the defaults filled in.
CalcArv == GetOr(last.req.arv, 0)

CalcRehab == GetOr(last.req.rehab_estimate, 0)

CalcFee == GetOr(last.req.assignment_fee, Dollars(10000))

EchoesInputs ==
    /\ last.body.arv = CalcArv
    /\ last.body.rehab_estimate = CalcRehab
    /\ last.body.assignment_fee = CalcFee

Scenario1 ==
    (CalcArv = Dollars(200000) /\ CalcRehab = Dollars(35000) /\ CalcFee = Dollars(10000)) =>
        /\ last.body.max_allowable_offer = Dollars(95000)
        /\ last.body.profit_at_mao = Dollars(60000)
        /\ last.body.seventy_percent_arv = Dollars(140000)

\* v is a whole number of cents within half a cent of tenth / 10.
RoundedToCents(v, tenth) == v % 10 = 0 /\ Abs(10 * v - tenth) <= 50

\* C5 as claimed: the calculator returns max_allowable_offer equal to
\* 0.70 * arv - rehab_estimate - assignment_fee and seventy_percent_arv equal
\* to 0.70 * arv, and echoes the three inputs.
C5_CalculatorExact ==
    IsCalculateMao =>
        /\ 10 * last.body.max_allowable_offer = TenMAO(CalcArv, CalcRehab, CalcFee)
        /\ 10 * last.body.seventy_percent_arv = 7 * CalcArv
        /\ EchoesInputs
        /\ Scenario1

\* C5, amended: the calculator returns 0.70 * arv - rehab_estimate -
\* assignment_fee and 0.70 * arv each rounded to 2 decimal places (a whole
\* number of cents within half a cent of the exact value), echoes the three
\* inputs unchanged, and answers scenario 1 with 95000, 60000 and 140000.
C5_CalculatorRounded ==
    IsCalculateMao =>
        /\ RoundedToCents(last.body.max_allowable_offer, TenMAO(CalcArv, CalcRehab, CalcFee))
        /\ RoundedToCents(last.body.seventy_percent_arv, 7 * CalcArv)
        /\ EchoesInputs
        /\ Scenario1

\* arv of one cent: 0.70 * arv = 0.007 is returned as 0.01.
C5_Witness ==
    /\ IsCalculateMao
    /\ last.req.arv = Some(Cents(1))
    /\ last.req.assignment_fee = Some(0)
    /\ last.body.seventy_percent_arv = Cents(1)
    /\ last.body.max_allowable_offer = Cents(1)

\* C6 as claimed: profit_at_mao equals 0.30 * arv, so a calculator call that
\* follows one with the same arv returns the same profit_at_mao.
C6_ProfitAtMaoExact ==
    [][ (last'.op = "calculate_mao") =>
          /\ 10 * last'.body.profit_at_mao = 3 * last'.body.arv
          /\ (IsCalculateMao /\ last.body.arv = last'.body.arv) =>
                last'.body.profit_at_mao = last.body.profit_at_mao ]_vars

\* C6, amended: profit_at_mao is 0.30 * arv rounded to 2 decimal places, a
\* whole number of cents within half a cent of 0.30 * arv whatever
\* rehab_estimate and assignment_fee are, so two calculator calls with the
\* same arv return values of profit_at_mao at most one cent apart.
C6_ProfitAtMaoRounded ==
    [][ (last'.op = "calculate_mao") =>
          /\ RoundedToCents(last'.body.profit_at_mao, 3 * last'.body.arv)
          /\ (IsCalculateMao /\ last.body.arv = last'.body.arv) =>
                Abs(last'.body.profit_at_mao - last.body.profit_at_mao) <= Cents(1) ]_vars

\* arv of five cents: 0.30 * arv = 0.015 lies halfway between two cents, and
\* a request with rehab_estimate 0 and assignment_fee 0 is answered 0.02 (one
\* with the default fee is answered 0.01).
C6_Witness ==
    /\ IsCalculateMao
    /\ last.req.arv = Some(Cents(5))
    /\ last.req.rehab_estimate = Some(0)
    /\ last.req.assignment_fee = Some(0)
    /\ last.body.profit_at_mao = Cents(2)

\* A calculator request with every absent key set to its default.
Explicit(data) ==
    [arv |-> Some(GetOr(data.arv, 0)),
     rehab_estimate |-> Some(GetOr(data.rehab_estimate, 0)),
     assignment_fee |-> Some(GetOr(data.assignment_fee, Dollars(10000)))]

\* C7: a calculator request that omits keys returns exactly what the request
\* with arv=0, rehab_estimate=0, assignment_fee=10000 made explicit returns,
\* and a create_deal that omits assignment_fee stores the document that the
\* same request with assignment_fee=10000 stores.
C7_DefaultsBeforeComputing ==
    /\ IsCalculateMao =>
          /\ calculate_mao(last.req) = calculate_mao(Explicit(last.req))
          /\ last.body \in calculate_mao(Explicit(last.req))
          /\ EchoesInputs
    /\ (IsCreateDeal /\ last.req.assignment_fee = None) =>
          /\ last.body.assignment_fee = Dollars(10000)
          /\ \A o \in create_deal(last.body.id[1],
                                  [last.req EXCEPT !.assignment_fee = Some(Dollars(10000))],
                                  EmptyBag, EmptyBag) :
                /\ o.body = last.body
                /\ last.body \in Stored(deals)

\* A calculator call with no key at all, answered as (0, 0, 10000), in a
\* store that holds a deal created with the fee omitted.
C7_Witness ==
    /\ IsCalculateMao
    /\ last.req = [arv |-> None, rehab_estimate |-> None, assignment_fee |-> None]
    /\ last.body.assignment_fee = Dollars(10000)
    /\ last.body.max_allowable_offer = -Dollars(10000)
    /\ \E d \in Stored(deals) : d.assignment_fee = Dollars(10000) /\ d.arv = 0

\* C8: the economics has no error outcome: every calculator call and every
\* create_deal is answered 200, every create_deal has stored its deal (as
\* many deals are stored as were requested), whatever the sign of the
\* results; (arv, rehab, fee) = (0, 0, 10000) gives MAO -10000.
C8_NoErrorOutcome ==
    /\ last.op \in {"calculate_mao", "create_deal"} => last.status = 200
    /\ IsCreateDeal => last.body \in Stored(deals)
    /\ count_documents(deals) = nextRid
    /\ (IsCalculateMao /\ CalcArv = 0 /\ CalcRehab = 0 /\ CalcFee = Dollars(10000)) =>
          last.body.max_allowable_offer = -Dollars(10000)

\* A deal whose offer and profit are both negative has been stored.
C8_Witness ==
    /\ IsCreateDeal
    /\ last.status = 200
    /\ last.body.max_allowable_offer < 0
    /\ last.body.profit_estimate < 0
    /\ last.body \in Stored(deals)
    /\ count_documents(deals) = MaxRequests

\* The roster: each agent of AGENTS_SEED exactly once.
Roster == SetToBag({AgentDocs[i] : i \in 1..Len(AGENTS_SEED)})

\* No request is in flight, and at least one has been served.
Quiescent ==
    /\ \A p \in Procs : procs[p].pc \in {"idle", "done"}
    /\ \E p \in Procs : procs[p].pc = "done"

\* C9: in every quiescent state reached by concurrent GET /agents and
\* POST /seed requests from an empty store, the agents collection holds
\* exactly the 11 roster agents, each once, and every GET /agents served has
\* returned 11 agents.
C9_QuiescentRoster ==
    Quiescent =>
        /\ agents = Roster
        /\ count_documents(agents) = 11
        /\ \A p \in Procs :
              procs[p].op = "get_agents" => count_documents(procs[p].body) = 11

IsSeedStep == last'.op = "seed_test_data"

StoreHoldsRecords ==
    count_documents(agents) + count_documents(leads)
        + count_documents(buyers) + count_documents(deals) > 0

\* C10 as claimed: a POST /seed served on a store that holds any record
\* inserts nothing and leaves every collection unchanged.
C10_SeedOnlyIfStoreEmpty ==
    [][ (IsSeedStep /\ StoreHoldsRecords) => store' = store ]_vars

\* What a seeding does to one collection: the starter documents go into an
\* empty collection, a collection that holds a document stays as it is.
SeededIfEmpty(coll, coll_, starters) ==
    IF count_documents(coll) = 0 THEN coll_ = SetToBag(starters) ELSE coll_ = coll

\* C10, amended: the Seed Loader tests each collection on its own.  A
\* POST /seed served with no other request interleaved inserts the starter
\* records of exactly those of agents, leads, buyers and deals that are empty
\* and leaves every collection that holds a document unchanged; on a store
\* whose four collections all hold documents (a second sequential POST /seed)
\* it inserts nothing.
C10_SeedPerCollection ==
    [][ IsSeedStep =>
          /\ SeededIfEmpty(agents, agents', {AgentDocs[i] : i \in 1..Len(AGENTS_SEED)})
          /\ count_documents(leads) = 0 => count_documents(leads') = 5
          /\ count_documents(leads) # 0 => leads' = leads
          /\ count_documents(buyers) = 0 => count_documents(buyers') = 3
          /\ count_documents(buyers) # 0 => buyers' = buyers
          /\ count_documents(deals) = 0 =>
                \E d \in Stored(deals') :
                    /\ deals' = SetToBag({d})
                    /\ d.lead_id = SampleLeadId
                    /\ d.status = "in_disposition"
          /\ count_documents(deals) # 0 => deals' = deals
          /\ ( /\ count_documents(agents) # 0
               /\ count_documents(leads) # 0
               /\ count_documents(buyers) # 0
               /\ count_documents(deals) # 0 ) => store' = store ]_vars

\* A seeding served on a store that held a created deal and the roster: it
\* added leads and buyers, and no sample deal.
C10_Witness ==
    /\ last.op = "seed_test_data"
    /\ agents = Roster
    /\ count_documents(leads) = 5
    /\ count_documents(buyers) = 3
    /\ count_documents(deals) = 1
    /\ \A d \in Stored(deals) : d.status = "under_contract" /\ d.id = NewId(1, 1)

\* C11: deal status has no enforced state machine.  The stored status of
\* every deal is always one of the five values of DealStatus, and an
\* update_deal that sets status t on a stored deal, whatever its status s
\* (closed and dead included), is answered 200 with the deal, and leaves the
\* deal stored with status t.
C11_FreeTransitions ==
    /\ [](\A d \in Stored(deals) : d.status \in DealStatus)
    /\ [][ \A t \in DealStatus :
             ( /\ last'.op = "update_deal"
               /\ last'.req.update.status = Some(t)
               /\ Matching(deals, last'.req.deal_id) # {} ) =>
                 /\ last'.status = 200
                 /\ last'.body.status = t
                 /\ last'.body.id = last'.req.deal_id
                 /\ last'.body \in Stored(deals')
                 /\ \A e \in Matching(deals', last'.req.deal_id) : e.status = t
                 /\ count_documents(deals') = count_documents(deals) ]_vars

\* A deal that was set dead (with the note of that update) has been put back
\* under contract, beside a deal that is closed.
C11_Witness ==
    /\ last.op = "update_deal"
    /\ last.status = 200
    /\ last.req.update.status = Some("under_contract")
    /\ last.body.notes = Some("seller backed out")
    /\ last.body.status = "under_contract"
    /\ last.body \in Stored(deals)
    /\ \E d \in Stored(deals) : d.status = "closed"

\* C12: delete_lead does not cascade.  A delete_lead of a stored lead is
\* answered 200 and removes exactly that one lead document; every deal and
\* every call log, those that name the deleted lead included, stay in the
\* store unchanged (as do the agents and buyers); a delete_lead of an id
\* that is not stored is answered 404 and removes nothing.
C12_DeleteNoCascade ==
    [][ last'.op = "delete_lead" =>
          /\ deals' = deals
          /\ call_logs' = call_logs
          /\ agents' = agents
          /\ buyers' = buyers
          /\ IF Matching(leads, last'.req.lead_id) # {}
             THEN /\ last'.status = 200
                  /\ \E l \in Matching(leads, last'.req.lead_id) :
                        leads' = leads (-) SetToBag({l})
                  /\ count_documents(leads') = count_documents(leads) - 1
             ELSE /\ last'.status = 404
                  /\ leads' = leads ]_vars

\* The first seeded lead has been deleted; the deal created from it and the
\* call log of a call to it are still stored.
C12_Witness ==
    /\ last.op = "delete_lead"
    /\ last.status = 200
    /\ Matching(leads, last.req.lead_id) = {}
    /\ count_documents(leads) = 4
    /\ \E d \in Stored(deals) : d.lead_id = last.req.lead_id
    /\ \E c \in Stored(call_logs) : c.lead_id = Some(last.req.lead_id)

\* The update of a PATCH sets field k.
Sets(update, k) == k \in DOMAIN update /\ update[k] # None

\* The requests whose write of field k to document id the store has applied.
Writers(op, id, k) ==
    {p \in Procs : /\ procs[p].seq > 0
                   /\ procs[p].op = op
                   /\ procs[p].id = id
                   /\ Sets(procs[p].update, k)}

\* The one of them whose write was applied last.
LastWriter(W) == CHOOSE p \in W : \A q \in W : procs[q].seq <= procs[p].seq

\* The collection of a PATCH after the step.
CollectionAfter(op) ==
    CASE op = "update_agent" -> agents'
      [] op = "update_lead" -> leads'
      [] op = "update_deal" -> deals'

\* C13: concurrent PATCH requests to one agent, lead or deal resolve
\* last-write-wins per document.  Each write is applied atomically: the
\* document after it is the document before it with exactly the fields of
\* the request set, and no other document changes.  In every state, every
\* field that applied writes have set holds the value of the write applied
\* last among those that set it: the later one where two requests set it,
\* that request's value where only one did.
C13_LastWriteWins ==
    /\ [](\A op \in PatchOps : \A d \in BagToSet(Collection(op)) : \A k \in DOMAIN d :
             Writers(op, d.id, k) # {} =>
                 d[k] = StoredValue(k, procs[LastWriter(Writers(op, d.id, k))].update[k]))
    /\ [][ nextRid' = nextRid + 1 =>
             /\ \A d \in Matching(Collection(last'.op), last'.req.id) :
                   \E e \in Matching(CollectionAfter(last'.op), last'.req.id) :
                       /\ \A k \in DOMAIN d :
                             e[k] = IF Sets(last'.req.update, k)
                                    THEN StoredValue(k, last'.req.update[k]) ELSE d[k]
                       /\ CollectionAfter(last'.op) =
                             (Collection(last'.op) (-) SetToBag({d})) (+) SetToBag({e})
             /\ \A op \in PatchOps \ {last'.op} : CollectionAfter(op) = Collection(op) ]_vars

\* Two PATCH requests to the first seeded lead have both been answered: one
\* set stage and notes, the other notes and motivation_score; the lead holds
\* the stage of the one, the score of the other and the notes of the one
\* whose write was applied last.
C13_Witness ==
    \E p, q \in Procs :
        /\ procs[p].pc = "done" /\ procs[q].pc = "done"
        /\ procs[p].op = "update_lead" /\ procs[q].op = "update_lead"
        /\ procs[p].update.notes = Some("wrong number")
        /\ procs[q].update.notes = Some("call back")
        /\ procs[q].seq > 0
        /\ procs[p].seq > procs[q].seq
        /\ \E d \in Stored(leads) :
              /\ d.id = procs[p].id
              /\ d.notes = Some("wrong number")
              /\ d.stage = "dead"
              /\ d.motivation_score = 1

\* Deals d and e were created from requests that differ in contract_price
\* alone.
SameButPrice(d, e) ==
    /\ d.arv = e.arv
    /\ d.rehab_estimate = e.rehab_estimate
    /\ d.assignment_fee = e.assignment_fee
    /\ d.lead_id = e.lead_id

\* C14: profit_estimate is linear and antitone in contract_price.  Two deals
\* stored by create_deal requests that differ only in contract_price, the
\* one larger by delta, have profit_estimate values that differ by exactly
\* delta, the higher price having the lower profit, and equal
\* max_allowable_offer values.
C14_ProfitAntitoneInPrice ==
    \A d, e \in Stored(deals) :
        SameButPrice(d, e) =>
            /\ d.profit_estimate - e.profit_estimate = e.contract_price - d.contract_price
            /\ d.contract_price > e.contract_price => d.profit_estimate < e.profit_estimate
            /\ d.max_allowable_offer = e.max_allowable_offer

\* Two deals of scenario 2 stored one cent of contract price apart: their
\* profits lie one cent apart the other way round.
C14_Witness ==
    /\ IsCreateDeal
    /\ last.body.contract_price = Dollars(85000) + Cents(1)
    /\ last.body.profit_estimate = Dollars(48000) - Cents(1)
    /\ \E e \in Stored(deals) :
          /\ SameButPrice(last.body, e)
          /\ e.contract_price = Dollars(85000)
          /\ e.profit_estimate = Dollars(48000)
          /\ e.max_allowable_offer = last.body.max_allowable_offer

\* The create_call_log requests that name agent id: those taken up, and
\* those whose increment of the agent the store has applied.
CallsTakenUp(id) ==
    {p \in Procs : procs[p].pc # "idle" /\ procs[p].req.agent_id = id}

CallsCounted(id) ==
    {p \in CallsTakenUp(id) : procs[p].pc # "inc_agent"}

CallLogsOf(id) == CountWhere(call_logs, {c \in BagToSet(call_logs) : c.agent_id = id})

\* C15: create_call_log counts every call exactly once for a stored agent.
\* Under any interleaving of concurrent create_call_log requests naming the
\* agent, in every state total_calls and calls_today have grown by the
\* number of requests whose increment has been applied and total_calls is at
\* most the number of stored call logs with that agent_id; once all n
\* requests have completed both counters have grown by exactly n and n call
\* logs have been inserted for the agent.
C15_CallsCountedOnce ==
    \A a \in Stored(agents) :
        /\ a.total_calls = Cardinality(CallsCounted(a.id))
        /\ a.calls_today = Cardinality(CallsCounted(a.id))
        /\ CallLogsOf(a.id) = Cardinality(CallsTakenUp(a.id))
        /\ a.total_calls <= CallLogsOf(a.id)
        /\ (\A p \in Procs : procs[p].pc \in {"idle", "done"}) =>
              /\ a.total_calls = Cardinality(CallsTakenUp(a.id))
              /\ a.calls_today = CallLogsOf(a.id)

\* Every request has named "ace" and has completed: its counters stand at
\* the number of requests, as many call logs are stored, and a lead was
\* called.
C15_Witness ==
    /\ \A p \in Procs : procs[p].pc = "done" /\ procs[p].req.agent_id = AceId
    /\ \E a \in Stored(agents) :
          /\ a.id = AceId
          /\ a.total_calls = NumProcs
          /\ a.calls_today = NumProcs
    /\ count_documents(call_logs) = NumProcs
    /\ \E l \in Stored(leads) : l.total_attempts >= 1

\* C16 as claimed: a create_call_log that names a stored lead and carries a
\* motivation_score (any integer, 0 included), served with no other request
\* interleaved, leaves the lead with the call's motivation_score, with
\* total_attempts one higher and with last_called_at equal to the call log's
\* created_at.
C16_CallUpdatesLead ==
    [][ ( /\ last'.op = "create_call_log"
          /\ last'.req.lead_id # None
          /\ last'.req.motivation_score # None ) =>
            \A l \in Matching(leads, last'.req.lead_id[1]) :
                \E e \in Matching(leads', l.id) :
                    /\ e.motivation_score = last'.req.motivation_score[1]
                    /\ e.total_attempts = l.total_attempts + 1
                    /\ e.last_called_at = Some(last'.body.created_at) ]_vars

\* C17: create_deal moves the referenced lead to stage "deal".  After a
\* create_deal whose lead_id names a stored lead, that lead's stage is
\* "deal", its other fields are as they were and every other lead is
\* unchanged; when lead_id names no stored lead the deal is inserted all the
\* same, the answer is 200 and the leads collection is unchanged.
C17_CreateDealSetsStage ==
    [][ last'.op = "create_deal" =>
          /\ last'.status = 200
          /\ deals' = deals (+) SetToBag({last'.body})
          /\ last'.body.lead_id = last'.req.lead_id
          /\ IF Matching(leads, last'.req.lead_id) = {}
             THEN leads' = leads
             ELSE \E l \in Matching(leads, last'.req.lead_id) :
                     /\ leads' = (leads (-) SetToBag({l}))
                                   (+) SetToBag({[l EXCEPT !.stage = "deal"]})
                     /\ \A e \in Matching(leads', l.id) : e.stage = "deal"
          /\ count_documents(leads') = count_documents(leads) ]_vars

\* A deal has been created from the first seeded lead, a hot lead: the lead
\* is now at stage "deal" with its score and county as seeded, beside the
\* other four leads as seeded.
C17_Witness ==
    /\ IsCreateDeal
    /\ count_documents(leads) = 5
    /\ \E l \in Stored(leads) :
          /\ l.id = last.req.lead_id
          /\ l.stage = "deal"
          /\ l.motivation_score = 8
          /\ l.county = "Harris"
    /\ \A l \in Stored(leads) : l.id # last.req.lead_id => l.stage # "deal"
    /\ last.body \in Stored(deals)

PatchHandlers == {"update_agent", "update_lead", "update_deal", "update_buyer"}

\* The id in the path of the PATCH held by r, and its collection.
PatchedId(r) ==
    CASE r.op = "update_agent" -> r.req.agent_id
      [] r.op = "update_lead" -> r.req.lead_id
      [] r.op = "update_deal" -> r.req.deal_id
      [] r.op = "update_buyer" -> r.req.buyer_id

PatchedCollection(r) ==
    CASE r.op = "update_agent" -> agents
      [] r.op = "update_lead" -> leads
      [] r.op = "update_deal" -> deals
      [] r.op = "update_buyer" -> buyers

\* The body of the PATCH held by r carries no field to set: every field of
\* the update model is None, or the dict of an update_buyer is empty.
NoFieldToSet(r) ==
    IF r.op = "update_buyer" THEN DOMAIN r.req.update = {}
    ELSE \A k \in DOMAIN r.req.update : r.req.update[k] = None

\* C18: a rejected PATCH leaves the store unchanged.  For update_agent,
\* update_lead, update_deal and update_buyer, a request whose body carries no
\* field to set is answered 400, a request with a field to set whose id
\* matches no stored document is answered 404, and in both cases no document
\* is created or modified; any other PATCH is answered neither 400 nor 404.
C18_RejectedPatchNoWrite ==
    [][ last'.op \in PatchHandlers =>
          /\ NoFieldToSet(last') => last'.status = 400
          /\ (~NoFieldToSet(last') /\ Matching(PatchedCollection(last'), PatchedId(last')) = {})
                => last'.status = 404
          /\ last'.status \in {400, 404} => store' = store
          /\ last'.status \in {400, 404} =>
                \/ NoFieldToSet(last')
                \/ Matching(PatchedCollection(last'), PatchedId(last')) = {} ]_vars

\* A PATCH /buyers with a flag to set and an id that is not stored has been
\* answered 404 on a seeded store in which an earlier PATCH had put "ace" on
\* a call: the three seeded buyers are all still active.
C18_Witness ==
    /\ last.op = "update_buyer"
    /\ last.status = 404
    /\ last.req.update = [is_active |-> FALSE]
    /\ count_documents(buyers) = 3
    /\ \A b \in Stored(buyers) : b.is_active = TRUE
    /\ \E a \in Stored(agents) : a.id = AceId /\ a.status = "on_call"

\* The stored leads that may be called, and those that must not.
NotDnc == {d \in Stored(leads) : d.do_not_call = FALSE}

Dnc == {d \in Stored(leads) : d.do_not_call = TRUE}

\* C19: a lead whose do_not_call flag is true is never exposed by the lead
\* pipeline views.  In every reachable state it is absent from the GET /leads
\* result for every combination of stage, county and min_score filters (the
\* result holds leads that may be called, and only stored ones), and it is
\* not counted by leads/stats/by-stage, leads/stats/by-county,
\* dashboard/counties or the dashboard's leads_by_stage, hot_leads and
\* total_leads: each of these totals is the count over the leads with
\* do_not_call false.
C19_DncHidden ==
    /\ \A q \in LeadFilters :
          LET result == get_leads(q.stage, q.county, q.min_score, leads)
          IN  /\ \A d \in Dnc : d \notin BagToSet(result)
              /\ \A d \in BagToSet(result) : d \in NotDnc
    /\ SumValues(get_leads_by_stage(leads)) = CountWhere(leads, NotDnc)
    /\ \A s \in DOMAIN get_leads_by_stage(leads) :
          get_leads_by_stage(leads)[s] = CountWhere(leads, {d \in NotDnc : d.stage = s})
    /\ SumValues(get_leads_by_county(leads)) = CountWhere(leads, NotDnc)
    /\ \A c \in DOMAIN get_leads_by_county(leads) :
          get_leads_by_county(leads)[c] = CountWhere(leads, {d \in NotDnc : d.county = c})
    /\ LET stats == get_dashboard_stats(leads, deals, buyers)
       IN  /\ stats.total_leads = CountWhere(leads, NotDnc)
           /\ stats.hot_leads = CountWhere(leads, {d \in NotDnc : d.motivation_score >= 7})
           /\ SumValues(stats.leads_by_stage) = CountWhere(leads, NotDnc)
    /\ LET rows == get_county_stats(leads)
       IN  /\ SumValues([c \in DOMAIN rows |-> rows[c].total]) = CountWhere(leads, NotDnc)
           /\ \A c \in DOMAIN rows :
                 /\ rows[c].total = CountWhere(leads, {d \in NotDnc : d.county = c})
                 /\ rows[c].hot + rows[c].warm + rows[c].raw = rows[c].total
    /\ last.op = "get_leads" =>
          \A d \in BagToSet(last.body.leads) : d \in NotDnc
    /\ last.op = "get_dashboard_stats" =>
          /\ last.body.total_leads = CountWhere(leads, NotDnc)
          /\ last.body.hot_leads = CountWhere(leads, {d \in NotDnc : d.motivation_score >= 7})
    /\ last.op = "get_leads_by_stage" => SumValues(last.body) = CountWhere(leads, NotDnc)
    /\ last.op = "get_leads_by_county" => SumValues(last.body) = CountWhere(leads, NotDnc)
    /\ last.op = "get_county_stats" =>
          SumValues([c \in DOMAIN last.body |-> last.body[c].total]) = CountWhere(leads, NotDnc)

\* GET /leads?stage=hot&county=harris&min_score=7 has been served while the
\* one lead that matches all three filters, the seeded lead of Harris county,
\* had do_not_call set: the result is empty.
C19_Witness ==
    /\ last.op = "get_leads"
    /\ last.req = [stage |-> Some("hot"), county |-> Some("harris"), min_score |-> Some(7)]
    /\ last.body.leads = EmptyBag
    /\ \E d \in Dnc : d.stage = "hot" /\ d.county = "Harris" /\ d.motivation_score = 8
    /\ count_documents(leads) = 5

\* The number of documents of coll stored under id.
IdCount(coll, id) == CountWhere(coll, Matching(coll, id))

\* Every id of coll is still there after the step, as often as before.
IdsKept(coll, coll_) ==
    \A d \in BagToSet(coll) : IdCount(coll_, d.id) >= IdCount(coll, d.id)

\* C20 as claimed: the id of a stored document is immutable and unique.
\* After any sequence of API operations no two documents of one collection
\* share an id, and no operation changes the id of a stored agent, lead,
\* deal or buyer: every id stored before a step is stored after it (but for
\* the lead that a delete_lead removes).
C20_IdsImmutableUnique ==
    /\ [](\A coll \in {agents, leads, deals, buyers} :
             \A d \in BagToSet(coll) : IdCount(coll, d.id) = 1)
    /\ [][ /\ IdsKept(agents, agents')
           /\ IdsKept(deals, deals')
           /\ IdsKept(buyers, buyers')
           /\ IF last'.op = "delete_lead"
              THEN IdsKept(Sub(leads, {d \in BagToSet(leads) : d.id # last'.req.lead_id}), leads')
              ELSE IdsKept(leads, leads') ]_vars

====
